---- MODULE Spec2Model ----
(***************************************************************************)
(* Model of the bookmark organizer's categorization pipeline               *)
(* (src/src/agents/categorizer.py): the dispatcher _process with its       *)
(* tenacity retry, the response validator _parse_response, and the         *)
(* aggregator categorize_bookmarks.                                        *)
(*                                                                         *)
(* Data representation                                                     *)
(*   - a Python dict is a sequence of [key, ...] records with distinct     *)
(*     keys, in insertion order;                                           *)
(*   - a response text is a sequence of tokens: whitespace, the fence      *)
(*     marker (three backticks), the language tag json, junk (text that  *)
(*     is no JSON), or the text of one JSON value;                         *)
(*   - a JSON value is [kind, pairs]: an object with its members as        *)
(*     written (keys may repeat in the text), or something else.           *)
(***************************************************************************)
EXTENDS Integers, Sequences, FiniteSets, TLC

\* ------------------------------------------------------------------ bounds
\* Longest bookmark list submitted to categorize_bookmarks.
MaxBookmarks == 21
\* Most members of a JSON object in a response text given to _parse_response.
MaxPairs == 2
\* Most items in one category list of such a response text.
MaxItems == 1
\* Most tokens before and after the JSON value of a fenced response text.
MaxPrefix == 3
MaxSuffix == 2

\* ---------------------------------------------------------- program constants
CHUNK_SIZE == 10
max_retries == 3
stop_after_attempt == 3
wait_min == 4
wait_max == 10
wait_multiplier == 1

\* The coroutine invocations of categorize_bookmarks on one agent.
Runs == {1, 2}

\* ------------------------------------------------------------- JSON values
\* Marks a key that a JSON object does not have.
ABSENT == "<absent>"

CategoryNames == {"Dev", "News"}

\* A list item: a mapping with (possibly absent) title and url, or a non-mapping.
NonDictItem == [isdict |-> FALSE, title |-> ABSENT, url |-> ABSENT]
DictItem(t, u) == [isdict |-> TRUE, title |-> t, url |-> u]
Items ==
  {NonDictItem, DictItem("a", ABSENT), DictItem(ABSENT, "u1"), DictItem("a", ""),
   DictItem("a", "u1")}

\* A category's value: a list of items, or something that is no list.
NonListValue == [islist |-> FALSE, items |-> <<>>]
ListValue(its) == [islist |-> TRUE, items |-> its]

SeqsUpTo(S, n) == UNION {[1..k -> S] : k \in 0..n}

Values == {NonListValue} \cup {ListValue(its) : its \in SeqsUpTo(Items, MaxItems)}

Member(k, v) == [key |-> k, value |-> v]
Members == {Member(k, v) : k \in CategoryNames, v \in Values}

\* A decoded (or written) JSON value.
NoDoc == [kind |-> "other", pairs |-> <<>>]
ObjectDoc(ps) == [kind |-> "dict", pairs |-> ps]
Docs == {NoDoc} \cup {ObjectDoc(ps) : ps \in SeqsUpTo(Members, MaxPairs)}

\* ------------------------------------------------------------ response text
Ws == [tok |-> "ws", doc |-> NoDoc]
Fence == [tok |-> "fence", doc |-> NoDoc]
JsonTag == [tok |-> "json", doc |-> NoDoc]
Junk == [tok |-> "junk", doc |-> NoDoc]
ValueText(d) == [tok |-> "value", doc |-> d]

\* str.strip(): drop leading and trailing whitespace.
RECURSIVE lstrip(_)
lstrip(s) == IF s # <<>> /\ Head(s).tok = "ws" THEN lstrip(Tail(s)) ELSE s

RECURSIVE rstrip(_)
rstrip(s) ==
  IF s # <<>> /\ s[Len(s)].tok = "ws" THEN rstrip(SubSeq(s, 1, Len(s) - 1)) ELSE s

strip(s) == rstrip(lstrip(s))

\* str.startswith / str.endswith for the two markers the validator looks for.
startswith_fence_json(s) == Len(s) >= 2 /\ s[1] = Fence /\ s[2] = JsonTag
startswith_fence(s) == Len(s) >= 1 /\ s[1] = Fence
endswith_fence(s) == Len(s) >= 1 /\ s[Len(s)] = Fence

\* Lines 109-119: strip, drop the markers, strip again.
clean_response(response) ==
  LET unfence_json(r0) == IF startswith_fence_json(r0) THEN SubSeq(r0, 3, Len(r0)) ELSE r0
      unfence(r1) == IF startswith_fence(r1) THEN SubSeq(r1, 2, Len(r1)) ELSE r1
      unfence_end(r2) == IF endswith_fence(r2) THEN SubSeq(r2, 1, Len(r2) - 1) ELSE r2
  IN  CHOOSE cleaned \in
        {strip(r3) : r3 \in {unfence_end(r2) : r2 \in
          {unfence(r1) : r1 \in {unfence_json(r0) : r0 \in {strip(response)}}}}} : TRUE

has_key(d, k) == \E j \in 1..Len(d) : d[j].key = k

\* Mutant: a new key is put in front of the dict.
dict_set_Prepend(d, k, v) ==
  IF has_key(d, k)
    THEN [j \in 1..Len(d) |-> IF d[j].key = k THEN Member(k, v) ELSE d[j]]
    ELSE <<Member(k, v)>> \o d

\* dict[k] = v on an insertion-ordered dict: replace in place, or append.
dict_set(d, k, v) ==
  IF has_key(d, k)
    THEN [j \in 1..Len(d) |-> IF d[j].key = k THEN Member(k, v) ELSE d[j]]
    ELSE Append(d, Member(k, v))

\* The dict json builds from an object's members: a repeated key keeps its
\* first position and its last value.
RECURSIVE build_dict(_, _)
build_dict(d, ps) ==
  IF ps = <<>> THEN d
  ELSE build_dict(dict_set(d, Head(ps).key, Head(ps).value), Tail(ps))

\* json.loads: the text must be exactly one JSON value (surrounding
\* whitespace is allowed); anything else raises JSONDecodeError.
json_loads(s) ==
  LET loaded(t) ==
        IF Len(t) = 1 /\ t[1].tok = "value"
          THEN [ok |-> TRUE,
                data |-> IF t[1].doc.kind = "dict"
                           THEN ObjectDoc(build_dict(<<>>, t[1].doc.pairs))
                           ELSE t[1].doc]
          ELSE [ok |-> FALSE, data |-> NoDoc]
  IN  CHOOSE decoded \in {loaded(t) : t \in {strip(s)}} : TRUE

\* Mutant: the url key is not asked for.
RECURSIVE validate_bookmarks_of_TitleOnly(_)
validate_bookmarks_of_TitleOnly(its) ==
  IF its = <<>> THEN ""
  ELSE IF ~Head(its).isdict THEN "invalid_bookmark"
  ELSE IF Head(its).title = ABSENT THEN "missing_fields"
  ELSE validate_bookmarks_of_TitleOnly(Tail(its))

\* Lines 135-139: the first complaint about a category's bookmarks, "" if none.
RECURSIVE validate_bookmarks_of(_)
validate_bookmarks_of(its) ==
  IF its = <<>> THEN ""
  ELSE IF ~Head(its).isdict THEN "invalid_bookmark"
  ELSE IF Head(its).title = ABSENT \/ Head(its).url = ABSENT THEN "missing_fields"
  ELSE validate_bookmarks_of(Tail(its))

\* Lines 130-139: the first complaint about the categories, "" if none.
RECURSIVE validate_categories(_)
validate_categories(ps) ==
  IF ps = <<>> THEN ""
  ELSE IF ~Head(ps).value.islist THEN "not_list"
  ELSE IF validate_bookmarks_of(Head(ps).value.items) # ""
         THEN validate_bookmarks_of(Head(ps).value.items)
  ELSE validate_categories(Tail(ps))

ParseError(e) == [ok |-> FALSE, error |-> e, data |-> <<>>]

\* CategorizerAgent._parse_response: the category map, or the ValueError raised.
parse_response(response) ==
  LET checked(decoded) ==
        IF ~decoded.ok THEN ParseError("invalid_json")
        ELSE IF decoded.data.kind # "dict" THEN ParseError("not_dict")
        ELSE IF validate_categories(decoded.data.pairs) # ""
               THEN ParseError(validate_categories(decoded.data.pairs))
        ELSE [ok |-> TRUE, error |-> "", data |-> decoded.data.pairs]
  IN  CHOOSE result \in
        {checked(decoded) : decoded \in {json_loads(clean_response(response))}} : TRUE


\* ------------------------------------------------------------- aggregator
VARIABLES
  pc,              \* where each run of categorize_bookmarks stands
  bookmarks,       \* the argument: the bookmarks, here numbered 1..N
  all_categories,  \* the aggregate dict: <<[key, items], ...>>
  failed_chunks,   \* the numbers of the chunks given up on
  i,               \* the for loop's index into bookmarks (0-based)
  chunk,           \* bookmarks[i:i + CHUNK_SIZE]
  chunk_num,
  retry_count,
  attempt_number,  \* tenacity's count of attempts of the current _process call
  wait,            \* the sleep before the next attempt of _process
  response,        \* the text _process returned last
  returned,        \* the dict categorize_bookmarks returned
  raised,          \* the failed chunks named by the ValueError it raised
  requests,        \* history: the client.post calls made for the current chunk
  attempted,       \* history: the numbers of the chunks taken up, in order
  outcomes,        \* history: how each finished chunk ended
  raw,             \* the text handed to a direct call of _parse_response
  parsed,          \* what that call gave
  content,         \* the HTML handed to BookmarkChunker.chunk_content
  max_bookmarks_per_chunk,
  chunker_pc,      \* where the generator chunk_content stands
  all_dt,          \* root_dl.find_all("dt", recursive=True)
  dt_index,        \* the position in all_dt of the entry visited next
  current_chunk_dts,
  current_bookmark_count,
  chunks,          \* history: the documents chunk_content has yielded
  request_categories,  \* request.categories of export_bookmarks
  html,            \* the lines export_bookmarks has joined
  export_status,   \* how that call of export_bookmarks ended
  endpoint,        \* the backend operation that was called, "idle" before
  payload,         \* what it was called with
  reply,           \* what it answered
  stream_lines,    \* the lines response.aiter_lines() of one attempt gives
  stream_pos,      \* how many of them the async for has taken
  full_response,   \* the text _process has collected
  process_pc,      \* where that attempt of _process stands
  process_value,   \* the text it returned
  structure_pc,    \* where the call of optimize_structure stands
  structure_bookmarks, \* its argument bookmarks
  structure_attempt,   \* tenacity's count of attempts of BaseAgent._process
  llm_calls,       \* history: the calls of llm.ainvoke made
  llm_outcome,     \* history: how the call of _process ended
  structure_response,  \* the text _process returned
  structure_result \* what optimize_structure returned

run_vars == <<pc, bookmarks, all_categories, failed_chunks, i, chunk, chunk_num,
              retry_count, attempt_number, wait, response, returned,
              raised, requests, attempted, outcomes>>
parse_vars == <<raw, parsed>>
chunk_vars == <<content, max_bookmarks_per_chunk, chunker_pc, all_dt, dt_index,
                current_chunk_dts, current_bookmark_count, chunks>>
export_vars == <<request_categories, html, export_status>>
api_vars == <<endpoint, payload, reply>>
stream_vars == <<stream_lines, stream_pos, full_response, process_pc, process_value>>
structure_vars == <<structure_pc, structure_bookmarks, structure_attempt, llm_calls,
                    llm_outcome, structure_response, structure_result>>
more_vars == <<api_vars, stream_vars, structure_vars>>
other_vars == <<parse_vars, chunk_vars, export_vars, more_vars>>
vars == <<run_vars, other_vars>>

\* What the generation service can answer to one request, as _process returns it.
Text_Dev == <<ValueText(ObjectDoc(<<Member("Dev", ListValue(<<DictItem("a", "u1")>>))>>))>>
Text_DevNews ==
  <<Fence, JsonTag, Ws,
    ValueText(ObjectDoc(<<Member("Dev", ListValue(<<DictItem("b", "u2")>>)),
                          Member("News", ListValue(<<DictItem("c", "u3")>>))>>)),
    Ws, Fence>>
Text_NewsDev ==
  <<ValueText(ObjectDoc(<<Member("News", ListValue(<<DictItem("d", "u4"), DictItem("e", "")>>)),
                          Member("Dev", ListValue(<<>>))>>))>>
Text_Empty == <<ValueText(ObjectDoc(<<>>))>>
Text_NotJson == <<Junk>>
Text_Malformed == <<ValueText(ObjectDoc(<<Member("Dev", ListValue(<<DictItem("x", ABSENT)>>))>>))>>
ServiceTexts == {Text_Dev, Text_DevNews, Text_NewsDev, Text_Empty, Text_NotJson, Text_Malformed}

\* Why one attempt of _process raises: the transport failed or the status was
\* no success (httpx.HTTPError), the 60 s timeout passed, a streamed line
\* carried an "error" field, or a line was no JSON.  All become ValueError.
AttemptErrors == {"http_error", "timeout", "api_error", "bad_line"}

Min(a, b) == IF a < b THEN a ELSE b
Max(a, b) == IF a > b THEN a ELSE b

RECURSIVE Pow2(_)
Pow2(n) == IF n = 0 THEN 1 ELSE 2 * Pow2(n - 1)

\* wait_exponential(multiplier=1, min=4, max=10) after the attempt numbered n.
wait_exponential(n) == Max(wait_min, Min(wait_multiplier * Pow2(n - 1), wait_max))

\* (len(bookmarks) + CHUNK_SIZE - 1)//CHUNK_SIZE
total_chunks(n) == (n + CHUNK_SIZE - 1) \div CHUNK_SIZE

\* Mutant: a category met again is overwritten instead of extended.
merge_category_Overwrite(all, category, items) ==
  LET with == IF has_key(all, category) THEN all
              ELSE Append(all, [key |-> category, items |-> <<>>])
  IN  [j \in 1..Len(with) |->
         IF with[j].key = category
           THEN [key |-> category, items |-> items]
           ELSE with[j]]

\* Lines 201-204: merge one category of a chunk into the aggregate.
merge_category(all, category, items) ==
  LET with == IF has_key(all, category) THEN all
              ELSE Append(all, [key |-> category, items |-> <<>>])
  IN  [j \in 1..Len(with) |->
         IF with[j].key = category
           THEN [key |-> category, items |-> with[j].items \o items]
           ELSE with[j]]

RECURSIVE merge_chunk(_, _)
merge_chunk(all, chunk_categories) ==
  IF chunk_categories = <<>> THEN all
  ELSE CHOOSE merged \in
         {merge_chunk(with, Tail(chunk_categories)) :
            with \in {merge_category(all, Head(chunk_categories).key,
                                     Head(chunk_categories).value.items)}} : TRUE

Set(f, r, v) == [f EXCEPT ![r] = v]

\* No run of categorize_bookmarks has been called yet.
RunInit ==
  /\ pc = [r \in Runs |-> "idle"]
  /\ bookmarks = [r \in Runs |-> <<>>]
  /\ all_categories = [r \in Runs |-> <<>>]
  /\ failed_chunks = [r \in Runs |-> <<>>]
  /\ i = [r \in Runs |-> 0]
  /\ chunk = [r \in Runs |-> <<>>]
  /\ chunk_num = [r \in Runs |-> 0]
  /\ retry_count = [r \in Runs |-> 0]
  /\ attempt_number = [r \in Runs |-> 0]
  /\ wait = [r \in Runs |-> 0]
  /\ response = [r \in Runs |-> <<>>]
  /\ returned = [r \in Runs |-> <<>>]
  /\ raised = [r \in Runs |-> <<>>]
  /\ requests = [r \in Runs |-> 0]
  /\ attempted = [r \in Runs |-> <<>>]
  /\ outcomes = [r \in Runs |-> <<>>]

\* The value of parsed while _parse_response has not been called.
NotParsed == ParseError("none")

\* No BookmarkChunker has been given any content yet.
ChunkerIdle ==
  /\ content = <<>>
  /\ max_bookmarks_per_chunk = 0
  /\ chunker_pc = "idle"
  /\ all_dt = <<>>
  /\ dt_index = 0
  /\ current_chunk_dts = <<>>
  /\ current_bookmark_count = 0
  /\ chunks = <<>>

\* export_bookmarks has not been requested yet.
ExportIdle ==
  /\ request_categories = <<>>
  /\ html = <<>>
  /\ export_status = "idle"

\* No backend operation has been called yet.
ApiIdle ==
  /\ endpoint = "idle"
  /\ payload = <<>>
  /\ reply = <<>>

\* No attempt of _process is reading a stream.
StreamIdle ==
  /\ stream_lines = <<>>
  /\ stream_pos = 0
  /\ full_response = <<>>
  /\ process_pc = "idle"
  /\ process_value = <<>>

\* optimize_structure has not been called.
StructureIdle ==
  /\ structure_pc = "idle"
  /\ structure_bookmarks = <<>>
  /\ structure_attempt = 0
  /\ llm_calls = 0
  /\ llm_outcome = "none"
  /\ structure_response = <<>>
  /\ structure_result = <<>>

MoreIdle == ApiIdle /\ StreamIdle /\ StructureIdle

Init ==
  /\ RunInit
  /\ raw = <<>>
  /\ parsed = NotParsed
  /\ ChunkerIdle
  /\ ExportIdle
  /\ MoreIdle

\* Mutant: an empty list is refused with an error.
Call_EmptyIsError(r, n) ==
  /\ pc[r] = "idle"
  /\ bookmarks' = Set(bookmarks, r, [k \in 1..n |-> k])
  /\ IF n = 0
       THEN /\ pc' = Set(pc, r, "raised")
            /\ raised' = Set(raised, r, <<>>)
       ELSE /\ pc' = Set(pc, r, "for")
            /\ UNCHANGED raised
  /\ UNCHANGED <<all_categories, failed_chunks, i, chunk, chunk_num, retry_count,
                 attempt_number, wait, response, returned, requests, attempted,
                 outcomes, other_vars>>

\* Lines 154-161: the call; an empty list returns {} at once.
Call(r, n) ==
  /\ pc[r] = "idle"
  /\ bookmarks' = Set(bookmarks, r, [k \in 1..n |-> k])
  /\ IF n = 0
       THEN /\ pc' = Set(pc, r, "returned")
            /\ returned' = Set(returned, r, <<>>)
       ELSE /\ pc' = Set(pc, r, "for")
            /\ UNCHANGED returned
  /\ UNCHANGED <<all_categories, failed_chunks, i, chunk, chunk_num, retry_count,
                 attempt_number, wait, response, raised, requests, attempted,
                 outcomes, other_vars>>

\* Mutant: a chunk takes one bookmark of the next chunk along.
NextChunk_Overlap(r) ==
  /\ pc[r] = "for"
  /\ i[r] < Len(bookmarks[r])
  /\ chunk' = Set(chunk, r, SubSeq(bookmarks[r], i[r] + 1,
                                   Min(i[r] + CHUNK_SIZE + 1, Len(bookmarks[r]))))
  /\ chunk_num' = Set(chunk_num, r, i[r] \div CHUNK_SIZE + 1)
  /\ retry_count' = Set(retry_count, r, 0)
  /\ requests' = Set(requests, r, 0)
  /\ attempted' = Set(attempted, r, Append(attempted[r], i[r] \div CHUNK_SIZE + 1))
  /\ pc' = Set(pc, r, "while")
  /\ UNCHANGED <<bookmarks, all_categories, failed_chunks, i, attempt_number,
                 wait, response, returned, raised, outcomes, other_vars>>

\* Lines 163-186: the next chunk of the for loop.
NextChunk(r) ==
  /\ pc[r] = "for"
  /\ i[r] < Len(bookmarks[r])
  /\ chunk' = Set(chunk, r, SubSeq(bookmarks[r], i[r] + 1,
                                   Min(i[r] + CHUNK_SIZE, Len(bookmarks[r]))))
  /\ chunk_num' = Set(chunk_num, r, i[r] \div CHUNK_SIZE + 1)
  /\ retry_count' = Set(retry_count, r, 0)
  /\ requests' = Set(requests, r, 0)
  /\ attempted' = Set(attempted, r, Append(attempted[r], i[r] \div CHUNK_SIZE + 1))
  /\ pc' = Set(pc, r, "while")
  /\ UNCHANGED <<bookmarks, all_categories, failed_chunks, i, attempt_number,
                 wait, response, returned, raised, outcomes, other_vars>>

\* Mutant: any failed chunk makes the run raise.
Finish_RaiseOnAnyFailure(r) ==
  /\ pc[r] = "for"
  /\ i[r] >= Len(bookmarks[r])
  /\ IF failed_chunks[r] # <<>>
       THEN /\ pc' = Set(pc, r, "raised")
            /\ raised' = Set(raised, r, failed_chunks[r])
            /\ UNCHANGED returned
       ELSE /\ pc' = Set(pc, r, "returned")
            /\ returned' = Set(returned, r, all_categories[r])
            /\ UNCHANGED raised
  /\ UNCHANGED <<bookmarks, all_categories, failed_chunks, i, chunk, chunk_num,
                 retry_count, attempt_number, wait, response, requests,
                 attempted, outcomes, other_vars>>

\* Lines 218-224: after the loop, raise if nothing was categorized, else return.
Finish(r) ==
  /\ pc[r] = "for"
  /\ i[r] >= Len(bookmarks[r])
  /\ IF failed_chunks[r] # <<>> /\ all_categories[r] = <<>>
       THEN /\ pc' = Set(pc, r, "raised")
            /\ raised' = Set(raised, r, failed_chunks[r])
            /\ UNCHANGED returned
       ELSE /\ pc' = Set(pc, r, "returned")
            /\ returned' = Set(returned, r, all_categories[r])
            /\ UNCHANGED raised
  /\ UNCHANGED <<bookmarks, all_categories, failed_chunks, i, chunk, chunk_num,
                 retry_count, attempt_number, wait, response, requests,
                 attempted, outcomes, other_vars>>

\* Mutant: a chunk given up on ends the for loop.
Dispatch_AbortOnFailure(r) ==
  /\ pc[r] = "while"
  /\ IF retry_count[r] < max_retries
       THEN /\ pc' = Set(pc, r, "post")
            /\ attempt_number' = Set(attempt_number, r, 1)
            /\ requests' = Set(requests, r, requests[r] + 1)
            /\ UNCHANGED i
       ELSE /\ pc' = Set(pc, r, "for")
            /\ i' = Set(i, r, Len(bookmarks[r]))
            /\ UNCHANGED <<attempt_number, requests>>
  /\ UNCHANGED <<bookmarks, all_categories, failed_chunks, chunk, chunk_num,
                 retry_count, wait, response, returned, raised, attempted,
                 outcomes, other_vars>>

\* Line 188 and 191: the while test; a further try calls _process, whose
\* first attempt posts the request.  When the test fails the for loop goes on.
Dispatch(r) ==
  /\ pc[r] = "while"
  /\ IF retry_count[r] < max_retries
       THEN /\ pc' = Set(pc, r, "post")
            /\ attempt_number' = Set(attempt_number, r, 1)
            /\ requests' = Set(requests, r, requests[r] + 1)
            /\ UNCHANGED i
       ELSE /\ pc' = Set(pc, r, "for")
            /\ i' = Set(i, r, i[r] + CHUNK_SIZE)
            /\ UNCHANGED <<attempt_number, requests>>
  /\ UNCHANGED <<bookmarks, all_categories, failed_chunks, chunk, chunk_num,
                 retry_count, wait, response, returned, raised, attempted,
                 outcomes, other_vars>>

\* Mutant: the chunk number is recorded at every failed outer attempt.
Except_RecordEachFailure(r) ==
  /\ retry_count' = Set(retry_count, r, retry_count[r] + 1)
  /\ failed_chunks' = Set(failed_chunks, r, Append(failed_chunks[r], chunk_num[r]))
  /\ IF retry_count[r] + 1 >= max_retries
       THEN outcomes' = Set(outcomes, r,
              Append(outcomes[r], [chunk_num |-> chunk_num[r], ok |-> FALSE,
                                   categories |-> <<>>]))
       ELSE UNCHANGED outcomes
  /\ pc' = Set(pc, r, "while")
  /\ UNCHANGED <<all_categories, i>>

\* Mutant: giving a chunk up empties the aggregate.
Except_ClearsAggregate(r) ==
  /\ retry_count' = Set(retry_count, r, retry_count[r] + 1)
  /\ IF retry_count[r] + 1 >= max_retries
       THEN /\ failed_chunks' = Set(failed_chunks, r, Append(failed_chunks[r], chunk_num[r]))
            /\ outcomes' = Set(outcomes, r,
                 Append(outcomes[r], [chunk_num |-> chunk_num[r], ok |-> FALSE,
                                      categories |-> <<>>]))
            /\ all_categories' = Set(all_categories, r, <<>>)
       ELSE UNCHANGED <<failed_chunks, outcomes, all_categories>>
  /\ pc' = Set(pc, r, "while")
  /\ UNCHANGED i

\* Lines 209-216: the except clause of the while loop's body.
Except(r) ==
  /\ retry_count' = Set(retry_count, r, retry_count[r] + 1)
  /\ IF retry_count[r] + 1 >= max_retries
       THEN /\ failed_chunks' = Set(failed_chunks, r, Append(failed_chunks[r], chunk_num[r]))
            /\ outcomes' = Set(outcomes, r,
                 Append(outcomes[r], [chunk_num |-> chunk_num[r], ok |-> FALSE,
                                      categories |-> <<>>]))
       ELSE UNCHANGED <<failed_chunks, outcomes>>
  /\ pc' = Set(pc, r, "while")
  /\ UNCHANGED <<all_categories, i>>

\* Mutant: tenacity stops one attempt late.
AttemptFails_OneAttemptMore(r, e) ==
  /\ pc[r] = "post"
  /\ e \in AttemptErrors
  /\ IF attempt_number[r] > stop_after_attempt
       THEN /\ Except(r)
            /\ UNCHANGED wait
       ELSE /\ pc' = Set(pc, r, "sleep")
            /\ wait' = Set(wait, r, wait_exponential(attempt_number[r]))
            /\ UNCHANGED <<retry_count, failed_chunks, outcomes, all_categories, i>>
  /\ UNCHANGED <<bookmarks, chunk, chunk_num, attempt_number, response, returned,
                 raised, requests, attempted, other_vars>>

\* Mutant: the first failed attempt reaches the caller, without a retry.
AttemptFails_NoRetry(r, e) ==
  /\ pc[r] = "post"
  /\ e \in AttemptErrors
  /\ Except(r)
  /\ UNCHANGED <<bookmarks, chunk, chunk_num, attempt_number, wait, response,
                 returned, raised, requests, attempted, other_vars>>

\* Lines 58-103: one attempt of _process raises.  tenacity sleeps and tries
\* again, or after stop_after_attempt attempts raises to the caller.
AttemptFails(r, e) ==
  /\ pc[r] = "post"
  /\ e \in AttemptErrors
  /\ IF attempt_number[r] >= stop_after_attempt
       THEN /\ Except(r)
            /\ UNCHANGED wait
       ELSE /\ pc' = Set(pc, r, "sleep")
            /\ wait' = Set(wait, r, wait_exponential(attempt_number[r]))
            /\ UNCHANGED <<retry_count, failed_chunks, outcomes, all_categories, i>>
  /\ UNCHANGED <<bookmarks, chunk, chunk_num, attempt_number, response, returned,
                 raised, requests, attempted, other_vars>>

\* Mutant: the next attempt is not counted by tenacity.
Retry_ForgetsAttempt(r) ==
  /\ pc[r] = "sleep"
  /\ pc' = Set(pc, r, "post")
  /\ requests' = Set(requests, r, requests[r] + 1)
  /\ UNCHANGED <<bookmarks, all_categories, failed_chunks, i, chunk, chunk_num,
                 retry_count, attempt_number, wait, response, returned, raised,
                 attempted, outcomes, other_vars>>

\* The sleep is over: the next attempt posts the request again.
Retry(r) ==
  /\ pc[r] = "sleep"
  /\ pc' = Set(pc, r, "post")
  /\ attempt_number' = Set(attempt_number, r, attempt_number[r] + 1)
  /\ requests' = Set(requests, r, requests[r] + 1)
  /\ UNCHANGED <<bookmarks, all_categories, failed_chunks, i, chunk, chunk_num,
                 retry_count, wait, response, returned, raised, attempted,
                 outcomes, other_vars>>

\* Lines 96 and 191: an attempt succeeds and _process returns the text.
AttemptReturns(r, text) ==
  /\ pc[r] = "post"
  /\ response' = Set(response, r, text)
  /\ pc' = Set(pc, r, "parse")
  /\ UNCHANGED <<bookmarks, all_categories, failed_chunks, i, chunk, chunk_num,
                 retry_count, attempt_number, wait, returned, raised, requests,
                 attempted, outcomes, other_vars>>


\* Mutant: the aggregate is kept on the agent, one for all runs.
HandleResponse_SharedAggregate(r) ==
  /\ pc[r] = "parse"
  /\ LET chunk_categories == parse_response(response[r])
     IN  IF chunk_categories.ok /\ chunk_categories.data # <<>>
           THEN /\ all_categories' =
                     [o \in Runs |-> merge_chunk(all_categories[r], chunk_categories.data)]
                /\ outcomes' = Set(outcomes, r,
                     Append(outcomes[r], [chunk_num |-> chunk_num[r], ok |-> TRUE,
                                          categories |-> chunk_categories.data]))
                /\ pc' = Set(pc, r, "for")
                /\ i' = Set(i, r, i[r] + CHUNK_SIZE)
                /\ UNCHANGED <<retry_count, failed_chunks>>
           ELSE Except(r)
  /\ UNCHANGED <<bookmarks, chunk, chunk_num, attempt_number, wait, response,
                 returned, raised, requests, attempted, other_vars>>

\* Mutant: an empty map counts as a success.
HandleResponse_AcceptEmpty(r) ==
  /\ pc[r] = "parse"
  /\ LET chunk_categories == parse_response(response[r])
     IN  IF chunk_categories.ok
           THEN /\ all_categories' =
                     Set(all_categories, r, merge_chunk(all_categories[r], chunk_categories.data))
                /\ outcomes' = Set(outcomes, r,
                     Append(outcomes[r], [chunk_num |-> chunk_num[r], ok |-> TRUE,
                                          categories |-> chunk_categories.data]))
                /\ pc' = Set(pc, r, "for")
                /\ i' = Set(i, r, i[r] + CHUNK_SIZE)
                /\ UNCHANGED <<retry_count, failed_chunks>>
           ELSE Except(r)
  /\ UNCHANGED <<bookmarks, chunk, chunk_num, attempt_number, wait, response,
                 returned, raised, requests, attempted, other_vars>>

\* Lines 194-207: validate the text; merge a non-empty map and leave the while
\* loop, or go to the except clause.
HandleResponse(r) ==
  /\ pc[r] = "parse"
  /\ \E chunk_categories \in {parse_response(response[r])} :
         IF chunk_categories.ok /\ chunk_categories.data # <<>>
           THEN /\ all_categories' =
                     Set(all_categories, r, merge_chunk(all_categories[r], chunk_categories.data))
                /\ outcomes' = Set(outcomes, r,
                     Append(outcomes[r], [chunk_num |-> chunk_num[r], ok |-> TRUE,
                                          categories |-> chunk_categories.data]))
                /\ pc' = Set(pc, r, "for")
                /\ i' = Set(i, r, i[r] + CHUNK_SIZE)
                /\ UNCHANGED <<retry_count, failed_chunks>>
           ELSE Except(r)
  /\ UNCHANGED <<bookmarks, chunk, chunk_num, attempt_number, wait, response,
                 returned, raised, requests, attempted, other_vars>>

RunNext(r) ==
  \/ \E n \in 0..MaxBookmarks : Call(r, n)
  \/ NextChunk(r)
  \/ Dispatch(r)
  \/ \E e \in AttemptErrors : AttemptFails(r, e)
  \/ Retry(r)
  \/ \E text \in ServiceTexts : AttemptReturns(r, text)
  \/ HandleResponse(r)
  \/ Finish(r)

\* One run of categorize_bookmarks against a service that answers as it likes.
Next == RunNext(1)

Spec == Init /\ [][Next]_vars


\* --------------------------------------------- _parse_response on its own
\* How a JSON value can be wrapped in a response text.
Wrappers == {"plain", "spaced", "fenced", "prefixed"}
Wrap(w, v) ==
  CASE w = "plain" -> <<v>>
    [] w = "spaced" -> <<Ws, v, Ws>>
    [] w = "fenced" -> <<Fence, JsonTag, Ws, v, Ws, Fence>>
    [] w = "prefixed" -> <<Junk, v>>

\* The JSON values of the service texts above.
SampleDocs == UNION {{t[j].doc : j \in 1..Len(t)} : t \in ServiceTexts} \ {NoDoc}

\* A JSON value between any markers and whitespace.
FencedInputs ==
  {pre \o Text_Dev \o post :
     pre \in SeqsUpTo({Ws, Fence, JsonTag}, MaxPrefix),
     post \in SeqsUpTo({Ws, Fence}, MaxSuffix)}

\* Every JSON value within the bounds as it is, and the sample values wrapped.
ParseInputs ==
  {<<>>, <<Junk>>, <<Fence>>, <<Fence, JsonTag>>}
    \cup {<<ValueText(d)>> : d \in Docs}
    \cup {Wrap(w, ValueText(d)) : w \in Wrappers, d \in SampleDocs \cup {NoDoc}}
    \cup FencedInputs

InitParse ==
  /\ RunInit
  /\ raw \in ParseInputs
  /\ parsed = NotParsed
  /\ ChunkerIdle
  /\ ExportIdle
  /\ MoreIdle

\* A direct call of _parse_response(raw).
ParseResponse ==
  /\ parsed = NotParsed
  /\ parsed' = parse_response(raw)
  /\ UNCHANGED <<raw, run_vars, chunk_vars, export_vars, more_vars>>

NextParse == ParseResponse

SpecParse == InitParse /\ [][NextParse]_vars

\* ------------------------------------------------------------------ claims
\* The document the validator decodes from a text, after its clean-up.
Decoded(text) == json_loads(clean_response(text))

\* A decoded document of the accepted shape: a mapping whose every value is a
\* list of mappings that each have a title key and a url key.
AcceptedShape(d) ==
  /\ d.ok
  /\ d.data.kind = "dict"
  /\ \A j \in 1..Len(d.data.pairs) :
       /\ d.data.pairs[j].value.islist
       /\ \A k \in 1..Len(d.data.pairs[j].value.items) :
            LET item == d.data.pairs[j].value.items[k]
            IN  item.isdict /\ item.title # ABSENT /\ item.url # ABSENT

\* C9: _parse_response returns a map only for a text that decodes to a mapping
\* whose values are all lists of mappings with both title and url, and then it
\* returns that mapping; every other text is rejected with an error and no map.
C9_ValidatorAcceptance ==
  parsed # NotParsed =>
    /\ parsed.ok => (AcceptedShape(Decoded(raw)) /\ parsed.data = Decoded(raw).data.pairs)
    /\ ~AcceptedShape(Decoded(raw)) => (~parsed.ok /\ parsed.error # "" /\ parsed.data = <<>>)

\* The text {"Dev": [{"title": "a"}]} was rejected for the missing url.
C9_Witness ==
  /\ raw = <<ValueText(ObjectDoc(<<Member("Dev", ListValue(<<DictItem("a", ABSENT)>>))>>))>>
  /\ parsed = ParseError("missing_fields")

\* C10: every item in every category list of a map returned by _parse_response
\* has a non-empty url.
C10_NonEmptyUrl ==
  parsed.ok =>
    \A j \in 1..Len(parsed.data) :
      \A k \in 1..Len(parsed.data[j].value.items) :
        parsed.data[j].value.items[k].url # ""


\* ------------------------------------------- claims about the aggregator
Finished(r) == pc[r] \in {"returned", "raised"}

Range(f) == {f[j] : j \in DOMAIN f}

\* The chunks of a run that were merged, in the order they were processed.
Succeeded(r) == SelectSeq(outcomes[r], LAMBDA o : o.ok)

\* The item list a chunk's category map holds for a name (empty if it has none).
RECURSIVE ChunkItems(_, _)
ChunkItems(categories, name) ==
  IF categories = <<>> THEN <<>>
  ELSE IF Head(categories).key = name THEN Head(categories).value.items
  ELSE ChunkItems(Tail(categories), name)

\* The concatenation, in order, of the item lists the chunks hold for a name.
RECURSIVE ConcatItems(_, _)
ConcatItems(outs, name) ==
  IF outs = <<>> THEN <<>>
  ELSE ChunkItems(Head(outs).categories, name) \o ConcatItems(Tail(outs), name)

\* All category names of the chunks, one after the other, with repetitions.
RECURSIVE AllKeys(_)
AllKeys(outs) ==
  IF outs = <<>> THEN <<>>
  ELSE [j \in 1..Len(Head(outs).categories) |-> Head(outs).categories[j].key]
         \o AllKeys(Tail(outs))

\* A sequence without the later repetitions of its elements.
RECURSIVE FirstAppearances(_, _)
FirstAppearances(seen, ks) ==
  IF ks = <<>> THEN seen
  ELSE FirstAppearances(IF Head(ks) \in Range(seen) THEN seen ELSE Append(seen, Head(ks)),
                        Tail(ks))

KeysOf(d) == [j \in 1..Len(d) |-> d[j].key]

\* The number of chunks of n bookmarks: the least c with c * CHUNK_SIZE >= n.
NumChunks(n) == CHOOSE c \in 0..n : c * CHUNK_SIZE >= n /\ (c - 1) * CHUNK_SIZE < n

\* C1: when categorize_bookmarks returns, the category keys are in the order of
\* their first appearance across the successful chunks, and each category's
\* list is the concatenation, in chunk order, of what those chunks returned
\* for that name.
C1_MergeCorrectness ==
  pc[1] = "returned" =>
    /\ KeysOf(returned[1]) = FirstAppearances(<<>>, AllKeys(Succeeded(1)))
    /\ \A j \in 1..Len(returned[1]) :
         returned[1][j].items = ConcatItems(Succeeded(1), returned[1][j].key)

\* Chunk 1 gave Dev: [a/u1], chunk 2 gave Dev: [b/u2] and News: [c/u3]; the
\* run returned Dev with u1 then u2, then News.
C1_Witness ==
  /\ pc[1] = "returned"
  /\ Len(outcomes[1]) = 2
  /\ returned[1] = <<[key |-> "Dev", items |-> <<DictItem("a", "u1"), DictItem("b", "u2")>>],
                     [key |-> "News", items |-> <<DictItem("c", "u3")>>]>>

\* C2: a run on a non-empty list in which every chunk failed raises, and the
\* error names every chunk, each once, in order.
C2_TotalFailure ==
  (Finished(1) /\ bookmarks[1] # <<>> /\ \A j \in 1..Len(outcomes[1]) : ~outcomes[1][j].ok) =>
    /\ pc[1] = "raised"
    /\ raised[1] = [j \in 1..NumChunks(Len(bookmarks[1])) |-> j]

\* Three chunks, all given up on: the error names 1, 2, 3.
C2_Witness ==
  /\ pc[1] = "raised"
  /\ raised[1] = <<1, 2, 3>>

\* The number of items in the aggregate or in the successful chunks.
RECURSIVE SumLen(_)
SumLen(seqs) == IF seqs = <<>> THEN 0 ELSE Len(Head(seqs)) + SumLen(Tail(seqs))

\* C3: the run raises only when no chunk succeeded; with at least one
\* successful chunk it returns a non-empty map that holds the items of the
\* successful chunks and nothing else.
C3_PartialSuccess ==
  /\ pc[1] = "raised" => Succeeded(1) = <<>>
  /\ (Finished(1) /\ Succeeded(1) # <<>>) =>
       /\ pc[1] = "returned"
       /\ returned[1] # <<>>
       /\ \A j \in 1..Len(returned[1]) :
            /\ \E o \in Range(Succeeded(1)) : has_key(o.categories, returned[1][j].key)
            /\ Len(returned[1][j].items) =
                 SumLen([m \in 1..Len(Succeeded(1)) |->
                           ChunkItems(Succeeded(1)[m].categories, returned[1][j].key)])
            /\ \A it \in Range(returned[1][j].items) :
                 \E o \in Range(Succeeded(1)) :
                   it \in Range(ChunkItems(o.categories, returned[1][j].key))
       /\ \A o \in Range(Succeeded(1)) :
            \A m \in 1..Len(o.categories) : has_key(returned[1], o.categories[m].key)

\* Chunk 2 of 3 was given up on, chunks 1 and 3 succeeded, and the run returned.
C3_Witness ==
  /\ pc[1] = "returned"
  /\ Len(outcomes[1]) = 3
  /\ outcomes[1][1].ok /\ ~outcomes[1][2].ok /\ outcomes[1][3].ok
  /\ failed_chunks[1] = <<2>>
  /\ returned[1] # <<>>

\* C4: a call with an empty list returns the empty map, takes up no chunk and
\* makes no request.
C4_EmptyInput ==
  (pc[1] # "idle" /\ bookmarks[1] = <<>>) =>
    /\ pc[1] = "returned"
    /\ returned[1] = <<>>
    /\ requests[1] = 0
    /\ attempt_number[1] = 0
    /\ attempted[1] = <<>>

C4_Witness == pc[1] = "returned" /\ bookmarks[1] = <<>> /\ returned[1] = <<>>

\* A chunk is being worked on.
InChunk(r) == pc[r] \in {"while", "post", "sleep", "parse"}

\* The numbers of the chunks that ended without success, in order.
FailedOutcomes(r) ==
  LET f == SelectSeq(outcomes[r], LAMBDA o : ~o.ok)
  IN  [j \in 1..Len(f) |-> f[j].chunk_num]

\* C5: the chunks are taken up in increasing order without a gap, whatever the
\* earlier chunks did, and all of them by the end; a chunk's number is in the
\* failed-chunks list exactly when its outer attempts are used up.
C5_FailureNeverAborts ==
  /\ attempted[1] = [j \in 1..Len(attempted[1]) |-> j]
  /\ Finished(1) => Len(attempted[1]) = NumChunks(Len(bookmarks[1]))
  /\ failed_chunks[1] = FailedOutcomes(1)
  /\ InChunk(1) =>
       (chunk_num[1] \in Range(failed_chunks[1]) <=> retry_count[1] >= max_retries)
  /\ \A j \in 1..Len(outcomes[1]) : outcomes[1][j].chunk_num = j

\* Chunk 1 was given up on and chunks 2 and 3 were still taken up.
C5_Witness ==
  /\ Finished(1)
  /\ failed_chunks[1] = <<1>>
  /\ attempted[1] = <<1, 2, 3>>

\* C6: the dispatch-and-validate step of a chunk is tried at most max_retries
\* times, each try makes at most stop_after_attempt requests, and so a chunk
\* costs at most 3 * 3 = 9 requests.
C6_CompoundingRetry ==
  /\ retry_count[1] <= max_retries
  /\ attempt_number[1] <= stop_after_attempt
  /\ requests[1] <= max_retries * stop_after_attempt
  /\ InChunk(1) =>
       requests[1] <= retry_count[1] * stop_after_attempt
                        + (IF pc[1] = "while" THEN 0 ELSE attempt_number[1])

\* The ceiling is reached: 9 requests for one chunk, which is then given up on.
C6_Witness ==
  /\ requests[1] = max_retries * stop_after_attempt
  /\ chunk_num[1] \in Range(failed_chunks[1])

\* C7: an empty category map is not merged, uses up one outer attempt, and the
\* third one in a row for a chunk puts the chunk on the failed-chunks list.
C7_EmptyMapIsFailure ==
  [][(pc[1] = "parse" /\ parse_response(response[1]).ok
        /\ parse_response(response[1]).data = <<>>) =>
       /\ all_categories'[1] = all_categories[1]
       /\ retry_count'[1] = retry_count[1] + 1
       /\ pc'[1] = "while"
       /\ i'[1] = i[1]
       /\ failed_chunks'[1] =
            IF retry_count[1] = max_retries - 1
              THEN Append(failed_chunks[1], chunk_num[1])
              ELSE failed_chunks[1]]_vars

\* The third outer attempt of a chunk gave an empty map and the chunk is on
\* the failed-chunks list.
C7_Witness ==
  /\ pc[1] = "while"
  /\ response[1] = Text_Empty
  /\ retry_count[1] = max_retries
  /\ requests[1] = max_retries
  /\ chunk_num[1] \in Range(failed_chunks[1])

\* C8: one call of _process makes at most 3 attempts; a failed attempt is
\* followed by a sleep and another attempt unless it was the third, and only
\* the third failure reaches the caller; a successful attempt ends the call
\* with its text.
C8_DispatcherBudget ==
  /\ [](attempt_number[1] <= stop_after_attempt)
  /\ [][/\ (pc[1] = "post" /\ pc'[1] = "while") => attempt_number[1] = stop_after_attempt
        /\ (pc[1] = "post" /\ attempt_number[1] < stop_after_attempt) =>
             pc'[1] \in {"sleep", "parse"}
        /\ pc[1] = "sleep" =>
             (pc'[1] = "post" /\ attempt_number'[1] = attempt_number[1] + 1)
        /\ (pc[1] = "post" /\ pc'[1] = "parse") =>
             (response'[1] \in ServiceTexts /\ attempt_number'[1] = attempt_number[1]
                /\ retry_count'[1] = retry_count[1])
        /\ (pc[1] = "post" /\ pc'[1] = "sleep") =>
             (retry_count'[1] = retry_count[1] /\ failed_chunks'[1] = failed_chunks[1])]_vars

\* Two attempts failed and the third returned a text.
C8_Witness ==
  /\ pc[1] = "parse"
  /\ attempt_number[1] = stop_after_attempt
  /\ requests[1] = stop_after_attempt


\* ------------------------------------------ claims about the validator, II
\* The fence markers at the front of a text, whitespace skipped: three
\* backticks, with the language tag if it follows at once.
RECURSIVE LeadingMarkers(_)
LeadingMarkers(s) ==
  LET t == lstrip(s)
  IN  IF startswith_fence_json(t) THEN 1 + LeadingMarkers(SubSeq(t, 3, Len(t)))
      ELSE IF startswith_fence(t) THEN 1 + LeadingMarkers(SubSeq(t, 2, Len(t)))
      ELSE 0

\* The three-backtick markers at the end of a text, whitespace skipped.
RECURSIVE TrailingMarkers(_)
TrailingMarkers(s) ==
  LET t == rstrip(s)
  IN  IF endswith_fence(t) THEN 1 + TrailingMarkers(SubSeq(t, 1, Len(t) - 1)) ELSE 0

\* The text holds something besides markers, tags and whitespace.
HasBody(s) == \E j \in 1..Len(s) : s[j].tok \in {"value", "junk"}

\* C11: the validator takes at most one fence marker off each side of a text,
\* so a text that begins with two markers keeps one and does not decode.
C11_AtMostOneFence ==
  (parsed # NotParsed /\ HasBody(raw)) =>
    /\ LeadingMarkers(raw) - LeadingMarkers(clean_response(raw)) <= 1
    /\ TrailingMarkers(raw) - TrailingMarkers(clean_response(raw)) <= 1
    /\ LeadingMarkers(raw) >= 2 => ~parsed.ok

\* json.dumps of a category map: the text of one object, members in dict order.
json_dumps(X) == <<ValueText(ObjectDoc(X))>>

\* A canonical category map: distinct keys, list values, items with title and url.
IsCanonical(X) ==
  /\ \A j, k \in 1..Len(X) : X[j].key = X[k].key => j = k
  /\ \A j \in 1..Len(X) :
       /\ X[j].value.islist
       /\ \A k \in 1..Len(X[j].value.items) :
            /\ X[j].value.items[k].isdict
            /\ X[j].value.items[k].title # ABSENT
            /\ X[j].value.items[k].url # ABSENT

MaxEntries == 2
MaxNested == 2
MaxLinks == 4
MaxChunkSize == 2

StartTag(name, id) == [name |-> name, end |-> FALSE, id |-> id]
EndTag(name) == [name |-> name, end |-> TRUE, id |-> 0]

Element(name, id, depth) == [name |-> name, id |-> id, depth |-> depth]
None == <<>>

\* The sequences of a sequence joined (split in halves to keep the evaluation
\* shallow).
RECURSIVE Cat(_)
Cat(seqs) ==
  IF Len(seqs) = 0 THEN <<>>
  ELSE IF Len(seqs) = 1 THEN seqs[1]
  ELSE LET half == Len(seqs) \div 2
       IN  Cat(SubSeq(seqs, 1, half)) \o Cat(SubSeq(seqs, half + 1, Len(seqs)))

\* html.parser keeps the names of the open elements on a stack.  A start tag
\* opens an element under the current one; no end tag is implied by it.
handle_starttag(builder, t) ==
  [tree |-> Append(builder.tree,
                   Element(t.name, t.id, Len(builder.tagStack) + 1)),
   tagStack |-> Append(builder.tagStack, t.name)]

\* An end tag closes the elements up to the last open one of its name; with
\* no open element of its name it is dropped.
handle_endtag(builder, t) ==
  LET open == {j \in 1..Len(builder.tagStack) : builder.tagStack[j] = t.name}
      most_recent == CHOOSE j \in open : \A m \in open : m <= j
  IN  IF open = {} THEN builder
      ELSE [builder EXCEPT !.tagStack = SubSeq(@, 1, most_recent - 1)]

\* The tags are handled in document order: the builder that has been fed the
\* first half of the markup is fed the second half (the markup is split in
\* halves, and the first result named before it is used, only to keep the
\* evaluation shallow).
RECURSIVE feed(_, _)
feed(builder, markup) ==
  IF markup = <<>> THEN builder
  ELSE IF Len(markup) = 1
  THEN IF markup[1].end THEN handle_endtag(builder, markup[1])
       ELSE handle_starttag(builder, markup[1])
  ELSE LET half == Len(markup) \div 2
       IN  CHOOSE fed \in {feed(b, SubSeq(markup, half + 1, Len(markup))) :
                             b \in {feed(builder, SubSeq(markup, 1, half))}} : TRUE

\* BeautifulSoup(markup, "html.parser"): what is still open at the end of the
\* markup is closed there.
BeautifulSoup(markup) ==
  feed([tree |-> <<Element("[document]", 0, 0)>>, tagStack |-> <<>>], markup).tree

\* The position of the last element below the element at position m.
last_descendant(tag, m) ==
  LET later == {e \in (m + 1)..Len(tag) : tag[e].depth <= tag[m].depth}
  IN  IF later = {} THEN Len(tag)
      ELSE (CHOOSE e \in later : \A x \in later : e <= x) - 1

\* The element at position m as a Tag of its own.
subtree(tag, m) ==
  [x \in 1..(last_descendant(tag, m) - m + 1) |->
     [tag[m + x - 1] EXCEPT !.depth = @ - tag[m].depth]]

\* The positions of tag.find_all(name, recursive=...), in document order.
find_all_at(tag, name, recursive) ==
  SelectSeq([m \in 1..(Len(tag) - 1) |-> m + 1],
            LAMBDA m : tag[m].name = name /\ (recursive \/ tag[m].depth = 1))

\* tag.find_all(name, recursive=...)
find_all(tag, name, recursive) ==
  LET at == find_all_at(tag, name, recursive)
  IN  [j \in 1..Len(at) |-> subtree(tag, at[j])]

\* tag.find(name, recursive=...)
find(tag, name, recursive) ==
  LET at == find_all_at(tag, name, recursive)
  IN  IF at = <<>> THEN None ELSE subtree(tag, at[1])

\* The element that holds the element at position m at the given depth.
ancestor_at(tag, m, depth) ==
  LET at == {j \in 1..m : tag[j].depth = depth}
  IN  tag[CHOOSE j \in at : \A k \in at : k <= j]

\* The start tag of the element at position m and the end tags that follow
\* it before the next start tag.
tags_at(tag, m) ==
  LET next_depth == IF m < Len(tag) THEN tag[m + 1].depth ELSE 0
      closed == tag[m].depth - next_depth + 1
  IN  <<StartTag(tag[m].name, tag[m].id)>> \o
      [c \in 1..closed |->
         EndTag(ancestor_at(tag, m, tag[m].depth - c + 1).name)]

\* str(tag): every element is written with its start and its end tag; the
\* document itself has none.
decode(tag) ==
  LET all == Cat([m \in 1..Len(tag) |-> tags_at(tag, m)])
  IN  IF tag[1].name = "[document]" THEN SubSeq(all, 2, Len(all) - 1) ELSE all

\* The tree after parent.append(new_tag), parent being the element at
\* position m.
append(tag, m, new_tag) ==
  LET e == last_descendant(tag, m)
  IN  SubSeq(tag, 1, e) \o
      [x \in 1..Len(new_tag) |->
         [new_tag[x] EXCEPT !.depth = @ + tag[m].depth + 1]] \o
      SubSeq(tag, e + 1, Len(tag))

\* ---------------------------------------------------------------------------
\* Bookmark files.  Browsers write the Netscape format, in which a DT is never
\* closed and every DL start and end tag is followed by a P start tag; a file
\* may as well close its DT elements, as str(tag) does.
\* ---------------------------------------------------------------------------

Styles == {"netscape", "closed"}

dt_end(style) == IF style = "closed" THEN <<EndTag("dt")>> ELSE <<>>
dl_start(style) ==
  IF style = "netscape" THEN <<StartTag("dl", 0), StartTag("p", 0)>>
  ELSE <<StartTag("dl", 0)>>
dl_end(style) ==
  IF style = "netscape" THEN <<EndTag("dl"), StartTag("p", 0)>>
  ELSE <<EndTag("dl")>>

\* <DT><A HREF=id>...</A>
link(style, id) ==
  <<StartTag("dt", 0), StartTag("a", id), EndTag("a")>> \o dt_end(style)

\* <DT><H3>id</H3><DL><p> inner </DL><p>
folder(style, id, inner) ==
  <<StartTag("dt", 0), StartTag("h3", id), EndTag("h3")>> \o dl_start(style) \o inner \o
  dl_end(style) \o dt_end(style)

header ==
  <<StartTag("title", 0), EndTag("title"), StartTag("h1", 0), EndTag("h1")>>

document(style, entries) == header \o dl_start(style) \o entries \o dl_end(style)

\* The shape of a file: per top-level entry, 0 for a link and k + 1 for a
\* folder of k links.  Links are numbered 1, 2, ... in document order.
Shapes ==
  SeqsUpTo(0..(MaxNested + 1), MaxEntries) \cup
  {[j \in 1..n |-> 0] : n \in 0..MaxLinks}
LinksIn(e) == IF e = 0 THEN 1 ELSE e - 1

RECURSIVE LinksBefore(_, _)
LinksBefore(shape, j) ==
  IF j <= 1 THEN 0 ELSE LinksBefore(shape, j - 1) + LinksIn(shape[j - 1])

WriteEntry(style, shape, j) ==
  LET base == LinksBefore(shape, j)
  IN  IF shape[j] = 0 THEN link(style, base + 1)
      ELSE folder(style, j,
                  Cat([m \in 1..(shape[j] - 1) |-> link(style, base + m)]))

Write(style, shape) ==
  document(style, Cat([j \in 1..Len(shape) |-> WriteEntry(style, shape, j)]))

\* The file of tests/test_chrome_parser.py: a folder in a folder.
SampleNested(style) ==
  document(style,
           folder(style, 1, link(style, 1) \o folder(style, 2, link(style, 2)))
           \o folder(style, 3, link(style, 3)))

\* Content with no DL at all.
NoList == {<<>>, header}

ChunkContents ==
  {Write(style, shape) : style \in Styles, shape \in Shapes}
  \cup {SampleNested(style) : style \in Styles} \cup NoList

\* ---------------------------------------------------------------------------
\* BookmarkChunker
\* ---------------------------------------------------------------------------

\* dt.find("a") is not None
is_bookmark(dt) == find(dt, "a", TRUE) # None

chunk_template ==
  header \o <<StartTag("dl", 0), StartTag("p", 0), EndTag("dl")>>

\* new_dt = BeautifulSoup(str(dt), "html.parser").dt
new_dt(dt) == find(BeautifulSoup(decode(dt)), "dt", TRUE)

\* for dt in dts: chunk_dl.append(new_dt), chunk_dl = chunk_soup.find("dl")
\* (the loop is split in halves as in feed).
RECURSIVE append_all(_, _)
append_all(chunk_soup, dts) ==
  IF Len(dts) = 0 THEN chunk_soup
  ELSE IF Len(dts) = 1
  THEN append(chunk_soup, find_all_at(chunk_soup, "dl", TRUE)[1], new_dt(dts[1]))
  ELSE LET half == Len(dts) \div 2
       IN  CHOOSE soup \in {append_all(s, SubSeq(dts, half + 1, Len(dts))) :
                              s \in {append_all(chunk_soup, SubSeq(dts, 1, half))}} : TRUE

\* Mutant: the copies are written one after another, with no list around them.
create_chunk_html_NoRoot(dts) ==
  header \o Cat([j \in 1..Len(dts) |-> decode(new_dt(dts[j]))])

\* _create_chunk_html(dts)
create_chunk_html(dts) == decode(append_all(BeautifulSoup(chunk_template), dts))

\* ---------------------------------------------------------------------------
\* OperaBookmarkParser.parse_content
\* ---------------------------------------------------------------------------

BookmarkFolder(title, bookmarks_, subfolders) ==
  [title |-> title, bookmarks |-> bookmarks_, subfolders |-> subfolders]

RECURSIVE parse_folder(_, _)
parse_folder(element, title) ==
  LET dts == find_all(element, "dt", FALSE)
      a_tag(dt) == find(dt, "a", FALSE)
      h3_tag(dt) == find(dt, "h3", FALSE)
      dl_tag(dt) == find(dt, "dl", FALSE)
      with_link == SelectSeq(dts, LAMBDA dt : a_tag(dt) # None /\ a_tag(dt)[1].id # 0)
      with_list == SelectSeq(dts, LAMBDA dt : h3_tag(dt) # None /\ dl_tag(dt) # None)
  IN  BookmarkFolder(title,
        [j \in 1..Len(with_link) |-> a_tag(with_link[j])[1].id],
        [j \in 1..Len(with_list) |->
           parse_folder(dl_tag(with_list[j]), h3_tag(with_list[j])[1].id)])

\* The result of parse_content, or the ValueError it raises.
parse_content(markup) ==
  LET root_dl == find(BeautifulSoup(markup), "dl", TRUE)
  IN  IF root_dl = None
      THEN [ok |-> FALSE, folder |-> BookmarkFolder(0, <<>>, <<>>)]
      ELSE [ok |-> TRUE, folder |-> parse_folder(root_dl, 0)]

\* The bookmarks of a folder and of the folders below it.
RECURSIVE extract_bookmarks(_)
extract_bookmarks(f) ==
  f.bookmarks \o
  Cat([j \in 1..Len(f.subfolders) |-> extract_bookmarks(f.subfolders[j])])

\* The values BookmarkChunker is constructed with.
ChunkSizes == (0 - 1)..MaxChunkSize

\* BookmarkChunker(k).chunk_content(markup), up to the for loop.
chunk_content(markup, k) ==
  /\ chunker_pc = "idle"
  /\ content' = markup
  /\ max_bookmarks_per_chunk' = k
  /\ LET soup == BeautifulSoup(markup)
         root_dl == find(soup, "dl", TRUE)
     IN  IF root_dl = None
         THEN /\ chunker_pc' = "done"
              /\ UNCHANGED <<all_dt, dt_index>>
         ELSE /\ chunker_pc' = "for"
              /\ all_dt' = find_all(root_dl, "dt", TRUE)
              /\ dt_index' = 1
  /\ UNCHANGED <<current_chunk_dts, current_bookmark_count, chunks>>
  /\ UNCHANGED <<run_vars, parse_vars, export_vars, more_vars>>

\* Mutant: a chunk is closed only once the count has passed the maximum.
VisitDt_ClosesLate ==
  /\ chunker_pc = "for"
  /\ dt_index <= Len(all_dt)
  /\ LET dt == all_dt[dt_index]
         count == IF is_bookmark(dt) THEN current_bookmark_count + 1
                  ELSE current_bookmark_count
         dts == Append(current_chunk_dts, dt)
     IN  IF count > max_bookmarks_per_chunk
         THEN /\ chunks' = Append(chunks, create_chunk_html(dts))
              /\ current_chunk_dts' = <<>>
              /\ current_bookmark_count' = 0
         ELSE /\ current_chunk_dts' = dts
              /\ current_bookmark_count' = count
              /\ UNCHANGED chunks
  /\ dt_index' = dt_index + 1
  /\ UNCHANGED <<content, max_bookmarks_per_chunk, chunker_pc, all_dt>>
  /\ UNCHANGED <<run_vars, parse_vars, export_vars, more_vars>>

\* One pass of the body of "for dt in all_dt".
VisitDt ==
  /\ chunker_pc = "for"
  /\ dt_index <= Len(all_dt)
  /\ LET dt == all_dt[dt_index]
         count == IF is_bookmark(dt) THEN current_bookmark_count + 1
                  ELSE current_bookmark_count
         dts == Append(current_chunk_dts, dt)
     IN  IF count >= max_bookmarks_per_chunk
         THEN /\ chunks' = Append(chunks, create_chunk_html(dts))
              /\ current_chunk_dts' = <<>>
              /\ current_bookmark_count' = 0
         ELSE /\ current_chunk_dts' = dts
              /\ current_bookmark_count' = count
              /\ UNCHANGED chunks
  /\ dt_index' = dt_index + 1
  /\ UNCHANGED <<content, max_bookmarks_per_chunk, chunker_pc, all_dt>>
  /\ UNCHANGED <<run_vars, parse_vars, export_vars, more_vars>>

\* The loop is over: what is left is yielded and the generator ends.
YieldRemaining ==
  /\ chunker_pc = "for"
  /\ dt_index > Len(all_dt)
  /\ chunks' = IF current_chunk_dts # <<>>
               THEN Append(chunks, create_chunk_html(current_chunk_dts))
               ELSE chunks
  /\ chunker_pc' = "done"
  /\ UNCHANGED <<content, max_bookmarks_per_chunk, all_dt, dt_index,
                 current_chunk_dts, current_bookmark_count>>
  /\ UNCHANGED <<run_vars, parse_vars, export_vars, more_vars>>

NextChunker ==
  \/ \E markup \in ChunkContents, k \in ChunkSizes : chunk_content(markup, k)
  \/ VisitDt
  \/ YieldRemaining

SpecChunker == Init /\ [][NextChunker]_vars

\* ---------------------------------------------------------------------------
\* Claims about the chunker.  The bookmark entries of a chunk are the ones
\* OperaBookmarkParser.parse_content reads from it, in all its folders.
\* ---------------------------------------------------------------------------

Chunked == chunker_pc = "done"

\* The numbers of the links written in a file, in document order.
LinksOf(markup) ==
  LET at == SelectSeq([j \in 1..Len(markup) |-> j],
                      LAMBDA j : markup[j].name = "a" /\ ~markup[j].end)
  IN  [j \in 1..Len(at) |-> markup[at[j]].id]

IsFlat(markup) == \A j \in 1..Len(markup) : markup[j].name # "h3"

BookmarksOf(chunk_html) ==
  LET result == parse_content(chunk_html)
  IN  IF result.ok THEN extract_bookmarks(result.folder) ELSE <<>>

ChunkBookmarks == [j \in 1..Len(chunks) |-> BookmarksOf(chunks[j])]

C14_PartitionAndOrder ==
  (Chunked /\ max_bookmarks_per_chunk > 0) =>
    Cat(ChunkBookmarks) = LinksOf(content)

\* C15: no chunk yielded with a maximum K > 0 holds more than K bookmarks,
\* those in its folders counted.
C15_ChunkSizeBound ==
  max_bookmarks_per_chunk > 0 =>
    \A j \in 1..Len(chunks) : Len(ChunkBookmarks[j]) <= max_bookmarks_per_chunk

\* A DT with a header: a folder entry.
IsFolderEntry(dt) == find(dt, "h3", FALSE) # None

\* C16: the pass of the loop that visits a folder entry leaves the bookmark
\* counter as it is and yields no chunk (the maximum being positive).
C16_FoldersNotCounted ==
  [][(/\ chunker_pc = "for"
      /\ dt_index <= Len(all_dt)
      /\ max_bookmarks_per_chunk > 0
      /\ IsFolderEntry(all_dt[dt_index]))
     => (/\ current_bookmark_count' = current_bookmark_count
         /\ chunks' = chunks)]_vars

\* C17: a chunker given a maximum <= 0 yields no chunk and does not run to
\* its end.
C17_NonPositiveRejected ==
  (chunker_pc # "idle" /\ max_bookmarks_per_chunk <= 0) =>
    (chunks = <<>> /\ ~Chunked)

\* Every start tag of the markup has its end tag, in place.
WellFormed(markup) == decode(BeautifulSoup(markup)) = markup

\* C18: every chunk yielded is well-formed and has a root list:
\* parse_content does not fail on it.
C18_ChunksStandAlone ==
  \A j \in 1..Len(chunks) :
    /\ WellFormed(chunks[j])
    /\ find(BeautifulSoup(chunks[j]), "dl", TRUE) # None
    /\ parse_content(chunks[j]).ok

C18_Witness ==
  /\ Chunked
  /\ ~WellFormed(content)
  /\ ~IsFlat(content)
  /\ Len(chunks) = 2
  /\ parse_content(chunks[2]).ok

\* ---------------------------------------------------------------------------
\* export_bookmarks.  The lines it joins are kept as the tags and texts they
\* hold.  The text of a category, a title or a description is put into its
\* line as it is, so what it holds of tags is part of the document.
\* ---------------------------------------------------------------------------

MaxExportItems == 2

\* The categories of a request, numbered.
ExportKeys == {1, 2}

Text(id) == [name |-> "#text", end |-> FALSE, id |-> id]

\* The bookmarks a request can hold, numbered by their url: one plain, one
\* with a description, one of a page whose title names a tag, as
\* "<dl>: The Description List element".
ExportItem(url, title, description) ==
  [url |-> url, title |-> title, description |-> description]
ExportItems ==
  {ExportItem(1, <<Text(1)>>, <<>>),
   ExportItem(2, <<Text(2)>>, <<Text(2)>>),
   ExportItem(3, <<StartTag("dl", 0), Text(3)>>, <<>>)}

\* request.categories: the categories are numbered, each with its list.
ExportCategory(category, bookmarks_) == [key |-> category, items |-> bookmarks_]
ExportRequests ==
  LET lists == SeqsUpTo(ExportItems, MaxExportItems)
      keys == {ks \in SeqsUpTo(ExportKeys, Cardinality(ExportKeys)) :
                 \A a, b \in 1..Len(ks) : a # b => ks[a] # ks[b]}
  IN  UNION {{[j \in 1..Len(ks) |-> ExportCategory(ks[j], ls[j])] :
                ls \in [1..Len(ks) -> lists]} : ks \in keys}

\* The lines of one bookmark.
bookmark_lines(bookmark) ==
  <<StartTag("dt", 0), StartTag("a", bookmark.url)>> \o bookmark.title \o
  <<EndTag("a")>> \o
  (IF bookmark.description # <<>>
   THEN <<StartTag("dd", 0)>> \o bookmark.description ELSE <<>>)

\* The lines of one category.
category_lines(c) ==
  <<StartTag("dt", 0), StartTag("h3", 0), Text(c.key), EndTag("h3"),
    StartTag("dl", 0), StartTag("p", 0)>> \o
  Cat([j \in 1..Len(c.items) |-> bookmark_lines(c.items[j])]) \o
  <<EndTag("dl"), StartTag("p", 0)>>

export_header ==
  <<StartTag("meta", 0), StartTag("title", 0), Text(0), EndTag("title"),
    StartTag("h1", 0), Text(0), EndTag("h1")>>

\* export_bookmarks(request)
export_bookmarks(request) ==
  /\ export_status = "idle"
  /\ request_categories' = request
  /\ IF request = <<>>
     THEN /\ export_status' = "error"
          /\ UNCHANGED html
     ELSE /\ html' = export_header \o <<StartTag("dl", 0), StartTag("p", 0)>> \o
                     Cat([j \in 1..Len(request) |-> category_lines(request[j])]) \o
                     <<EndTag("dl"), StartTag("p", 0)>>
          /\ export_status' = "ok"
  /\ UNCHANGED <<run_vars, parse_vars, chunk_vars, more_vars>>

NextExport == \E request \in ExportRequests : export_bookmarks(request)

SpecExport == Init /\ [][NextExport]_vars

\* ---------------------------------------------------------------------------
\* Claims about the export.  The document is read as an importer of the
\* Netscape format reads it: by its DT entries and the depth of the lists
\* open around them.
\* ---------------------------------------------------------------------------

IsStart(markup, j, name) ==
  j \in 1..Len(markup) /\ markup[j].name = name /\ ~markup[j].end
IsEnd(markup, j, name) ==
  j \in 1..Len(markup) /\ markup[j].name = name /\ markup[j].end

\* The number of lists open before position j.
ListDepth(markup, j) ==
  Cardinality({k \in 1..(j - 1) : IsStart(markup, k, "dl")}) -
  Cardinality({k \in 1..(j - 1) : IsEnd(markup, k, "dl")})

Positions(markup, P(_)) ==
  SelectSeq([j \in 1..Len(markup) |-> j], P)

\* The folder blocks of the top level, and all leaf entries.
FolderBlocks(markup) ==
  Positions(markup, LAMBDA j : /\ IsStart(markup, j, "dt")
                               /\ IsStart(markup, j + 1, "h3")
                               /\ ListDepth(markup, j) = 1)
Leaves(markup) ==
  Positions(markup, LAMBDA j : IsStart(markup, j, "dt") /\ IsStart(markup, j + 1, "a"))

\* The urls of the leaf entries of the k-th folder block, in order.
LeavesOfBlock(markup, k) ==
  LET blocks == FolderBlocks(markup)
      from == blocks[k]
      to == IF k < Len(blocks) THEN blocks[k + 1] ELSE Len(markup) + 1
      at == SelectSeq(Leaves(markup),
                      LAMBDA j : from < j /\ j < to /\ ListDepth(markup, j) = 2)
  IN  [j \in 1..Len(at) |-> markup[at[j] + 1].id]

ListsClosed(markup) ==
  /\ ListDepth(markup, Len(markup) + 1) = 0
  /\ \A j \in 1..Len(markup) : ListDepth(markup, j + 1) >= 0

\* C19: the document exported for a non-empty request has one top-level
\* folder block per category, in the order of the mapping, each with one
\* leaf entry per bookmark of the category, in the order of its list; no leaf
\* entry is outside these, and every list opened is closed.
C19_ExportShape ==
  export_status = "ok" =>
    LET blocks == FolderBlocks(html)
    IN  /\ Len(blocks) = Len(request_categories)
        /\ \A k \in 1..Len(blocks) :
             /\ html[blocks[k] + 2] = Text(request_categories[k].key)
             /\ LeavesOfBlock(html, k) =
                  [j \in 1..Len(request_categories[k].items) |->
                     request_categories[k].items[j].url]
        /\ Len(Leaves(html)) = SumLen([k \in 1..Len(blocks) |-> LeavesOfBlock(html, k)])
        /\ ListsClosed(html)

\* ---------------------------------------------------------------------------
\* Two runs of categorize_bookmarks on one agent.  A run gives way to the
\* other wherever it awaits; here the runs take their steps in any order.
\* ---------------------------------------------------------------------------

TwoSizes == {0, CHUNK_SIZE + 1}
TwoTexts == {Text_Dev, Text_Empty}
TwoErrors == {"timeout"}

RunNextTwo(r) ==
  \/ \E n \in TwoSizes : Call(r, n)
  \/ NextChunk(r)
  \/ Dispatch(r)
  \/ \E e \in TwoErrors : AttemptFails(r, e)
  \/ Retry(r)
  \/ \E text \in TwoTexts : AttemptReturns(r, text)
  \/ HandleResponse(r)
  \/ Finish(r)

NextTwo == \E r \in Runs : RunNextTwo(r)

SpecTwo == Init /\ [][NextTwo]_vars

\* What a run that got these chunk results makes of them on its own.
RECURSIVE MergedAlone(_, _)
MergedAlone(all, outs) ==
  IF outs = <<>> THEN all
  ELSE MergedAlone(merge_chunk(all, Head(outs).categories), Tail(outs))

\* A run's aggregate and failed chunks are those of its own chunk results, and
\* so is what it returns or raises.
OwnResult(r) ==
  /\ all_categories[r] = MergedAlone(<<>>, Succeeded(r))
  /\ failed_chunks[r] = FailedOutcomes(r)
  /\ pc[r] = "returned" =>
       returned[r] = MergedAlone(<<>>, Succeeded(r))
  /\ pc[r] = "raised" =>
       (Succeeded(r) = <<>> /\ raised[r] = FailedOutcomes(r))

\* Nothing of run o changes in the step.
Untouched(o) ==
  /\ all_categories'[o] = all_categories[o]
  /\ failed_chunks'[o] = failed_chunks[o]
  /\ returned'[o] = returned[o]
  /\ raised'[o] = raised[o]
  /\ outcomes'[o] = outcomes[o]
  /\ pc'[o] = pc[o]

\* C20: of two runs whose steps interleave, each has at every moment the
\* aggregate and the failed chunks of its own chunk results and returns or
\* raises what follows from them, and no step of one run changes anything of
\* the other.
C20_RunIndependence ==
  /\ [](\A r \in Runs : OwnResult(r))
  /\ [][\E r \in Runs : \A o \in Runs \ {r} : Untouched(o)]_vars

\* Both runs are under way, run 1 with a chunk merged and run 2 with a chunk
\* given up on.
C20_Witness ==
  /\ pc[1] = "post"
  /\ pc[2] = "sleep"
  /\ all_categories[1] # <<>>
  /\ all_categories[2] = <<>>
  /\ failed_chunks[1] = <<>>
  /\ failed_chunks[2] = <<1>>

\* ------------------------------------------------------ Chrome parser
\* ChromeBookmarkParser.parse_content: every DT below the first DL that has a
\* link with an href as a direct child gives a bookmark of the one folder
\* returned; a ValueError when there is no DL.
chrome_parse_content(markup) ==
  LET root_dl == find(BeautifulSoup(markup), "dl", TRUE)
      dts == find_all(root_dl, "dt", TRUE)
      a_tag(dt) == find(dt, "a", FALSE)
      with_link == SelectSeq(dts, LAMBDA dt : a_tag(dt) # None /\ a_tag(dt)[1].id # 0)
  IN  IF root_dl = None
      THEN [ok |-> FALSE, folder |-> BookmarkFolder(0, <<>>, <<>>)]
      ELSE [ok |-> TRUE,
            folder |-> BookmarkFolder(0,
                         [j \in 1..Len(with_link) |-> a_tag(with_link[j])[1].id],
                         <<>>)]

\* ------------------------------------------------------------ backend
\* Longest list posted to /validate.
MaxValidate == 3
\* Longest list posted to /api/categorize.
MaxRequest == 2

\* Python's truth of a str or of the None that dict.get gives for no key.
truthy(s) == s # ABSENT /\ s # ""

\* What the handlers answer: the HTTP status and the JSON body.
BookmarkResponse(success, message, data) ==
  [status_code |-> 200, model |-> "BookmarkResponse", success |-> success,
   message |-> message, data |-> data]
JSONResponse(status_code, error) ==
  [status_code |-> status_code, model |-> "JSONResponse", success |-> FALSE,
   message |-> error, data |-> <<>>]
PlainResponse(data) ==
  [status_code |-> 200, model |-> "dict", success |-> FALSE, message |-> "",
   data |-> data]

\* What CategorizerAgent.process returns: categories, or an error and none.
AgentCategories(categories) == [error |-> ABSENT, categories |-> categories]
AgentError == [error |-> "Categorization failed", categories |-> <<>>]
AgentResults == {AgentError, AgentCategories(<<[key |-> "Dev", items |-> <<1>>]>>)}

\* The attributes ChromeBookmarkParser() has after __init__.
ChromeBookmarkParser == [browser_name |-> "chrome"]
hasattr(object, name) == name \in DOMAIN object

\* POST /api/import-bookmarks with the text of the uploaded file; result is what
\* the categorizer agent gives for the bookmarks read.
import_bookmarks(file, result) ==
  LET parser == ChromeBookmarkParser
  IN  IF ~hasattr(parser, "max_bookmarks_per_chunk")
      THEN JSONResponse(500, "Failed to process bookmarks")
      ELSE IF parser.max_bookmarks_per_chunk # 0
      THEN JSONResponse(500, "Failed to process bookmarks")
      ELSE IF ~chrome_parse_content(file).ok
      THEN JSONResponse(500, "Failed to process bookmarks")
      ELSE IF result.error # ABSENT
      THEN JSONResponse(500, "Failed to organize bookmarks")
      ELSE PlainResponse(result)

\* POST /api/categorize
categorize_bookmarks(request_bookmarks, result) ==
  IF request_bookmarks = <<>>
  THEN BookmarkResponse(FALSE, "No bookmarks provided", <<>>)
  ELSE IF result.categories = <<>>
  THEN BookmarkResponse(FALSE, "Categorization failed: No categories returned", <<>>)
  ELSE BookmarkResponse(TRUE, "Bookmarks categorized successfully", result)

\* POST /validate
validate_bookmarks(request_bookmarks) ==
  LET validated == SelectSeq(request_bookmarks, LAMBDA bookmark : truthy(bookmark.url))
  IN  [j \in 1..Len(validated) |->
         IF ~truthy(validated[j].title)
         THEN [validated[j] EXCEPT !.title = validated[j].url]
         ELSE validated[j]]

\* The files uploaded and parsed: what a browser writes, with and without
\* folders, and the nested file of the parser's test.
BookmarkFiles ==
  {Write(style, shape) : style \in Styles, shape \in Shapes}
    \cup {SampleNested(style) : style \in Styles}

UrlValues == {ABSENT, "", "u1", "u2"}
TitleValues == {ABSENT, "", " ", "a"}
ValidateRecords == [url : UrlValues, title : TitleValues]

ParseChrome ==
  \E file \in BookmarkFiles \cup NoList :
    /\ endpoint = "idle"
    /\ endpoint' = "parse_content"
    /\ payload' = file
    /\ reply' = chrome_parse_content(file)
    /\ UNCHANGED <<run_vars, parse_vars, chunk_vars, export_vars, stream_vars, structure_vars>>

ImportBookmarks ==
  \E file \in BookmarkFiles, result \in AgentResults :
    /\ endpoint = "idle"
    /\ endpoint' = "import-bookmarks"
    /\ payload' = file
    /\ reply' = import_bookmarks(file, result)
    /\ UNCHANGED <<run_vars, parse_vars, chunk_vars, export_vars, stream_vars, structure_vars>>

CategorizeBookmarks ==
  \E request_bookmarks \in SeqsUpTo({1, 2}, MaxRequest), result \in AgentResults :
    /\ endpoint = "idle"
    /\ endpoint' = "categorize"
    /\ payload' = request_bookmarks
    /\ reply' = categorize_bookmarks(request_bookmarks, result)
    /\ UNCHANGED <<run_vars, parse_vars, chunk_vars, export_vars, stream_vars, structure_vars>>

ValidateBookmarks ==
  \E request_bookmarks \in SeqsUpTo(ValidateRecords, MaxValidate) :
    /\ endpoint = "idle"
    /\ endpoint' = "validate"
    /\ payload' = request_bookmarks
    /\ reply' = validate_bookmarks(request_bookmarks)
    /\ UNCHANGED <<run_vars, parse_vars, chunk_vars, export_vars, stream_vars, structure_vars>>

NextBackend ==
  \/ ParseChrome
  \/ ImportBookmarks
  \/ CategorizeBookmarks
  \/ ValidateBookmarks

SpecBackend == Init /\ [][NextBackend]_vars

\* ------------------------------------------------------ backend claims
\* C21: a well-formed bookmark file uploaded to /api/import-bookmarks is
\* answered with status 200 and a success result whose bookmark list holds
\* every bookmark URL of the file.
C21_ImportAnswersAllUrls ==
  endpoint = "import-bookmarks" =>
    /\ reply.status_code = 200
    /\ reply.success
    /\ "bookmarks" \in DOMAIN reply.data
    /\ \A j \in 1..Len(LinksOf(payload)) :
         \E k \in 1..Len(reply.data.bookmarks) :
           reply.data.bookmarks[k] = LinksOf(payload)[j]

\* C22: a categorize request with an empty bookmark list is answered with
\* HTTP status 400.
C22_EmptyListIs400 ==
  (endpoint = "categorize" /\ payload = <<>>) => reply.status_code = 400

\* The urls of the leaf entries that lie directly in the root list.
LeavesOfRoot(markup) ==
  LET at == SelectSeq(Leaves(markup), LAMBDA j : ListDepth(markup, j) = 1)
  IN  [j \in 1..Len(at) |-> markup[at[j] + 1].id]

\* C23: the root folder parse_content returns has one subfolder per
\* top-level folder of the document, in document order, each folder holds
\* the bookmarks that lie directly in it, and the root holds only the
\* bookmarks outside every folder.
C23_HierarchyPreserved ==
  (endpoint = "parse_content" /\ reply.ok) =>
    LET root == reply.folder
        blocks == FolderBlocks(payload)
    IN  /\ Len(root.subfolders) = Len(blocks)
        /\ \A k \in 1..Len(blocks) :
             /\ root.subfolders[k].title = payload[blocks[k] + 1].id
             /\ root.subfolders[k].bookmarks = LeavesOfBlock(payload, k)
        /\ root.bookmarks = LeavesOfRoot(payload)

IsBlank(s) == s \in {ABSENT, "", " "}

\* C24: the validated list is the input restricted, in order, to the records
\* with a non-empty url; each record keeps its title when that was not blank
\* and gets its url as title otherwise; validating again changes nothing.
C24_Validation ==
  endpoint = "validate" =>
    LET kept == SelectSeq(payload, LAMBDA b : b.url # ABSENT /\ b.url # "")
    IN  /\ Len(reply) = Len(kept)
        /\ \A j \in 1..Len(kept) :
             /\ reply[j].url = kept[j].url
             /\ reply[j].title # ABSENT /\ reply[j].title # ""
             /\ reply[j].title =
                  IF IsBlank(kept[j].title) THEN kept[j].url ELSE kept[j].title
        /\ validate_bookmarks(reply) = reply

\* ------------------------------------------------- streamed response
\* Most lines in the stream of one attempt.
MaxLines == 3

\* One line of the stream: empty, text that json.loads rejects, a JSON value
\* that is no object, or an object with or without the keys error, response
\* and done. A fragment is a sequence of characters.
EmptyLine ==
  [empty |-> TRUE, decodable |-> FALSE, isdict |-> FALSE, error |-> FALSE,
   has_response |-> FALSE, response |-> <<>>, done |-> FALSE]
BadLine == [EmptyLine EXCEPT !.empty = FALSE]
NumberLine == [BadLine EXCEPT !.decodable = TRUE]
ObjectLine(error, has_response, fragment, done) ==
  [empty |-> FALSE, decodable |-> TRUE, isdict |-> TRUE, error |-> error,
   has_response |-> has_response, response |-> fragment, done |-> done]
Fragments == {<<"a">>, <<"b">>}
StreamLines ==
  {EmptyLine, BadLine, NumberLine}
    \cup {ObjectLine(error, FALSE, <<>>, done) : error \in BOOLEAN, done \in BOOLEAN}
    \cup {ObjectLine(error, TRUE, fragment, done) :
            error \in BOOLEAN, fragment \in Fragments, done \in BOOLEAN}

\* client.post has answered with a success status; the async for begins.
OpenStream ==
  \E lines \in SeqsUpTo(StreamLines, MaxLines) :
    /\ process_pc = "idle"
    /\ stream_lines' = lines
    /\ stream_pos' = 0
    /\ full_response' = <<>>
    /\ process_pc' = "for"
    /\ UNCHANGED process_value
    /\ UNCHANGED <<run_vars, parse_vars, chunk_vars, export_vars, api_vars, structure_vars>>

\* Mutant: the loop reads on after the line with done.
ReadLine_NoBreak ==
  /\ process_pc = "for"
  /\ stream_pos < Len(stream_lines)
  /\ stream_pos' = stream_pos + 1
  /\ LET line == stream_lines[stream_pos + 1]
     IN  IF line.empty
         THEN UNCHANGED <<full_response, process_pc, process_value>>
         ELSE IF ~line.decodable \/ ~line.isdict \/ line.error
         THEN /\ process_pc' = "raised"
              /\ UNCHANGED <<full_response, process_value>>
         ELSE /\ full_response' =
                   IF line.has_response THEN full_response \o line.response
                   ELSE full_response
              /\ UNCHANGED <<process_pc, process_value>>
  /\ UNCHANGED stream_lines
  /\ UNCHANGED <<run_vars, parse_vars, chunk_vars, export_vars, api_vars, structure_vars>>

\* One pass of the async for: an empty line is skipped; a line json.loads
\* rejects, a value that is no object (the key tests raise on it) and an
\* object with an error key raise ValueError; a response is appended; done
\* ends the loop and the text is returned.
ReadLine ==
  /\ process_pc = "for"
  /\ stream_pos < Len(stream_lines)
  /\ stream_pos' = stream_pos + 1
  /\ LET line == stream_lines[stream_pos + 1]
         collected == IF line.has_response THEN full_response \o line.response
                      ELSE full_response
     IN  IF line.empty
         THEN UNCHANGED <<full_response, process_pc, process_value>>
         ELSE IF ~line.decodable \/ ~line.isdict \/ line.error
         THEN /\ process_pc' = "raised"
              /\ UNCHANGED <<full_response, process_value>>
         ELSE /\ full_response' = collected
              /\ IF line.done
                 THEN process_pc' = "returned" /\ process_value' = collected
                 ELSE UNCHANGED <<process_pc, process_value>>
  /\ UNCHANGED stream_lines
  /\ UNCHANGED <<run_vars, parse_vars, chunk_vars, export_vars, api_vars, structure_vars>>

\* The stream has ended without a done line: the text collected is returned.
EndOfStream ==
  /\ process_pc = "for"
  /\ stream_pos = Len(stream_lines)
  /\ process_pc' = "returned"
  /\ process_value' = full_response
  /\ UNCHANGED <<stream_lines, stream_pos, full_response>>
  /\ UNCHANGED <<run_vars, parse_vars, chunk_vars, export_vars, api_vars, structure_vars>>

NextStream == OpenStream \/ ReadLine \/ EndOfStream

SpecStream == Init /\ [][NextStream]_vars

\* Where the first line with the completion marker stands, or the end.
CarriesDone(line) == line.decodable /\ line.isdict /\ line.done
FirstDone(lines) ==
  IF \E j \in 1..Len(lines) : CarriesDone(lines[j])
  THEN CHOOSE j \in 1..Len(lines) :
         CarriesDone(lines[j]) /\ \A k \in 1..(j - 1) : ~CarriesDone(lines[k])
  ELSE Len(lines)
Faulty(line) == ~line.empty /\ (~line.decodable \/ (line.isdict /\ line.error))

\* The fragments of the first n lines, joined in order.
RECURSIVE JoinFragments(_, _)
JoinFragments(lines, n) ==
  IF n = 0 THEN <<>>
  ELSE JoinFragments(lines, n - 1) \o
         (IF lines[n].has_response THEN lines[n].response ELSE <<>>)

\* C25: the text a successful attempt returns is the fragments of the lines
\* up to and including the first line with the completion marker, joined in
\* arrival order; with a line carrying an error field or an undecodable line
\* before that one the attempt does not return and gives no text.
C25_StreamAccumulation ==
  /\ process_pc = "returned" =>
       process_value = JoinFragments(stream_lines, FirstDone(stream_lines))
  /\ (\E j \in 1..(FirstDone(stream_lines) - 1) : Faulty(stream_lines[j])) =>
       /\ process_pc # "returned"
       /\ process_value = <<>>
       /\ stream_pos = Len(stream_lines) => process_pc = "raised"

C25_Witness ==
  /\ process_pc = "returned"
  /\ FirstDone(stream_lines) = 2
  /\ Len(stream_lines) = 3
  /\ stream_lines[3].has_response
  /\ process_value = <<"a", "b">>

\* ------------------------------------------------------------ backoff
\* C26: within one call of _process the wait before the 2nd attempt is the
\* minimum wait, the wait before the 3rd attempt is twice that, capped at the
\* maximum wait, and every wait lies between the minimum and the maximum.
C26_Backoff ==
  pc[1] = "sleep" =>
    /\ wait_min <= wait[1] /\ wait[1] <= wait_max
    /\ attempt_number[1] = 1 => wait[1] = wait_min
    /\ attempt_number[1] = 2 => wait[1] = Min(2 * wait_min, wait_max)

\* -------------------------------------------------- chunks of a run
\* The bookmarks of the chunk with number c of a list: a slice of CHUNK_SIZE
\* consecutive bookmarks, the last one shorter.
SliceOf(list, c) ==
  SubSeq(list, (c - 1) * CHUNK_SIZE + 1, Min(c * CHUNK_SIZE, Len(list)))

RECURSIVE JoinSlices(_, _)
JoinSlices(list, numbers) ==
  IF numbers = <<>> THEN <<>>
  ELSE SliceOf(list, Head(numbers)) \o JoinSlices(list, Tail(numbers))

\* C27: the chunk with number c holds the c-th run of CHUNK_SIZE consecutive
\* bookmarks of the list, between 1 and CHUNK_SIZE of them; every request is
\* made for the chunk taken up last; the chunks are numbered 1, 2, ... and by
\* the end there are ceil(N / CHUNK_SIZE) of them, which together hold every
\* bookmark once, in input order.
C27_Chunking ==
  /\ chunk_num[1] >= 1 =>
       /\ chunk[1] = SliceOf(bookmarks[1], chunk_num[1])
       /\ Len(chunk[1]) >= 1 /\ Len(chunk[1]) <= CHUNK_SIZE
       /\ chunk_num[1] = attempted[1][Len(attempted[1])]
  /\ attempted[1] = [c \in 1..Len(attempted[1]) |-> c]
  /\ Len(attempted[1]) <= NumChunks(Len(bookmarks[1]))
  /\ Finished(1) =>
       /\ Len(attempted[1]) = NumChunks(Len(bookmarks[1]))
       /\ JoinSlices(bookmarks[1], attempted[1]) = bookmarks[1]

\* A list of 21 bookmarks has been worked through in chunks 1, 2 and 3, the
\* last of which held the one bookmark left.
C27_Witness ==
  /\ Finished(1)
  /\ Len(bookmarks[1]) = 2 * CHUNK_SIZE + 1
  /\ attempted[1] = <<1, 2, 3>>
  /\ chunk[1] = <<2 * CHUNK_SIZE + 1>>

\* ------------------------------------------------- merging, once each
\* The numbers of the chunks whose map has been merged.
MergedChunks == {outcomes[1][j].chunk_num : j \in {k \in 1..Len(outcomes[1]) : outcomes[1][k].ok}}

IsPrefix(s, t) == Len(s) <= Len(t) /\ SubSeq(t, 1, Len(s)) = s

\* The aggregate after the step holds every category it held, under the same
\* name at the same place, with a list that begins with the list it had.
AggregateKept ==
  /\ Len(all_categories[1]) <= Len(all_categories'[1])
  /\ \A j \in 1..Len(all_categories[1]) :
       /\ all_categories'[1][j].key = all_categories[1][j].key
       /\ IsPrefix(all_categories[1][j].items, all_categories'[1][j].items)

\* C28: no chunk has two outcomes and a chunk whose map was merged is not
\* dispatched again; a finished chunk is on the failed-chunks list exactly
\* when its map was not merged; and no step removes or renames a category of
\* the aggregate or shortens its list.
C28_MergeAtMostOnce ==
  /\ [](/\ \A j, k \in 1..Len(outcomes[1]) :
             outcomes[1][j].chunk_num = outcomes[1][k].chunk_num => j = k
        /\ pc[1] \in {"while", "post", "sleep", "parse"} => chunk_num[1] \notin MergedChunks
        /\ \A j \in 1..Len(outcomes[1]) :
             outcomes[1][j].chunk_num \in Range(failed_chunks[1]) <=> ~outcomes[1][j].ok
        /\ Range(failed_chunks[1]) \subseteq {outcomes[1][j].chunk_num : j \in 1..Len(outcomes[1])}
        /\ Finished(1) =>
             \A c \in 1..NumChunks(Len(bookmarks[1])) :
               c \in Range(failed_chunks[1]) <=> c \notin MergedChunks)
  /\ [][AggregateKept]_vars

\* Chunk 1 was merged, chunk 2 was given up on, chunk 3 was merged into the
\* aggregate that chunk 1 had begun.
C28_Witness ==
  /\ pc[1] = "returned"
  /\ Len(outcomes[1]) = 3
  /\ outcomes[1][1].ok /\ ~outcomes[1][2].ok /\ outcomes[1][3].ok
  /\ failed_chunks[1] = <<2>>
  /\ \E j \in 1..Len(all_categories[1]) : Len(all_categories[1][j].items) = 2

\* ------------------------------------------------------ termination
\* The run under a scheduler that lets it take its next step: every request
\* posted returns, fails or times out (the post carries timeout=60.0), every
\* sleep ends, and the coroutine is resumed after each await.
SpecFair == Spec /\ WF_vars(Next)

\* C29: a call of categorize_bookmarks eventually returns a map or raises the
\* total-failure error, and no chunk costs it more than
\* max_retries * stop_after_attempt = 9 requests.
C29_Termination ==
  /\ (pc[1] # "idle") ~> Finished(1)
  /\ [](requests[1] <= max_retries * stop_after_attempt)

\* The run has returned although its third chunk used up all nine requests.
C29_Witness ==
  /\ pc[1] = "returned"
  /\ Len(outcomes[1]) = 3
  /\ ~outcomes[1][3].ok
  /\ requests[1] = max_retries * stop_after_attempt

\* ------------------------------------------------ structure agent
\* Longest list given to optimize_structure.
MaxStructure == 2

\* A bookmark of the list: a dict, or a value that has no get.
StructureBookmarks ==
  {[isdict |-> TRUE, id |-> 1], [isdict |-> TRUE, id |-> 2], [isdict |-> FALSE, id |-> 0]}

\* A folder and a structure, as the agent returns them.
Folder(name, folder_bookmarks) ==
  [name |-> name, bookmarks |-> folder_bookmarks, subfolders |-> <<>>]
Structure(folders) == [folders |-> folders]

\* Lines 94-102: the flat structure returned when anything went wrong.
fallback(bookmarks_) == Structure(<<Folder("All Bookmarks", bookmarks_)>>)

\* What the text of a reply decodes to: nothing, a value that is no dict, a
\* dict without folders, or a dict with them.
Reply(decodable, isdict, has_folders, folders) ==
  [decodable |-> decodable, isdict |-> isdict, has_folders |-> has_folders,
   folders |-> folders]
Replies ==
  {Reply(FALSE, FALSE, FALSE, <<>>), Reply(TRUE, FALSE, FALSE, <<>>),
   Reply(TRUE, TRUE, FALSE, <<>>), Reply(TRUE, TRUE, TRUE, <<>>),
   Reply(TRUE, TRUE, TRUE, <<Folder("Work", <<>>)>>)}

\* How an attempt of BaseAgent._process can fail: the 60 second timeout, an
\* error of the model, or a result without content.
LlmErrors == {"timeout", "error", "no_content"}

\* optimize_structure(bookmarks): the empty list is answered at once; a
\* bookmark without get fails the rendering of the prompt; otherwise _process
\* makes its first attempt.
OptimizeStructure ==
  \E list \in SeqsUpTo(StructureBookmarks, MaxStructure) :
    /\ structure_pc = "idle"
    /\ structure_bookmarks' = list
    /\ IF list = <<>>
       THEN /\ structure_pc' = "returned"
            /\ structure_result' = Structure(<<>>)
            /\ UNCHANGED <<structure_attempt, llm_calls>>
       ELSE IF \E j \in 1..Len(list) : ~list[j].isdict
       THEN /\ structure_pc' = "returned"
            /\ structure_result' = fallback(list)
            /\ UNCHANGED <<structure_attempt, llm_calls>>
       ELSE /\ structure_pc' = "ainvoke"
            /\ structure_attempt' = 1
            /\ llm_calls' = 1
            /\ UNCHANGED structure_result
    /\ UNCHANGED <<llm_outcome, structure_response>>
    /\ UNCHANGED <<run_vars, parse_vars, chunk_vars, export_vars, api_vars, stream_vars>>

\* Mutant: the error of the third attempt leaves optimize_structure.
LlmFails_Raises ==
  \E e \in LlmErrors :
    /\ structure_pc = "ainvoke"
    /\ IF structure_attempt >= stop_after_attempt
       THEN /\ structure_pc' = "raised"
            /\ llm_outcome' = "failed"
            /\ UNCHANGED structure_result
       ELSE /\ structure_pc' = "sleep"
            /\ UNCHANGED <<llm_outcome, structure_result>>
    /\ UNCHANGED <<structure_bookmarks, structure_attempt, llm_calls, structure_response>>
    /\ UNCHANGED <<run_vars, parse_vars, chunk_vars, export_vars, api_vars, stream_vars>>

\* An attempt of _process fails: tenacity sleeps and tries again, or after
\* the third attempt raises, which the except clause of line 92 answers with
\* the fallback.
LlmFails ==
  \E e \in LlmErrors :
    /\ structure_pc = "ainvoke"
    /\ IF structure_attempt >= stop_after_attempt
       THEN /\ structure_pc' = "returned"
            /\ llm_outcome' = "failed"
            /\ structure_result' = fallback(structure_bookmarks)
       ELSE /\ structure_pc' = "sleep"
            /\ UNCHANGED <<llm_outcome, structure_result>>
    /\ UNCHANGED <<structure_bookmarks, structure_attempt, llm_calls, structure_response>>
    /\ UNCHANGED <<run_vars, parse_vars, chunk_vars, export_vars, api_vars, stream_vars>>

\* The sleep is over: the next attempt calls the model again.
StructureRetry ==
  /\ structure_pc = "sleep"
  /\ structure_pc' = "ainvoke"
  /\ structure_attempt' = structure_attempt + 1
  /\ llm_calls' = llm_calls + 1
  /\ UNCHANGED <<structure_bookmarks, llm_outcome, structure_response, structure_result>>
  /\ UNCHANGED <<run_vars, parse_vars, chunk_vars, export_vars, api_vars, stream_vars>>

\* The model has answered: lines 85-90 decode the text and return it if it is
\* a dict with folders; every other text gives the fallback.
LlmReturns ==
  \E answer \in Replies :
    /\ structure_pc = "ainvoke"
    /\ structure_pc' = "returned"
    /\ llm_outcome' = "replied"
    /\ structure_response' = answer
    /\ structure_result' =
         IF answer.decodable /\ answer.isdict /\ answer.has_folders
         THEN Structure(answer.folders)
         ELSE fallback(structure_bookmarks)
    /\ UNCHANGED <<structure_bookmarks, structure_attempt, llm_calls>>
    /\ UNCHANGED <<run_vars, parse_vars, chunk_vars, export_vars, api_vars, stream_vars>>

NextStructure == OptimizeStructure \/ LlmFails \/ StructureRetry \/ LlmReturns

SpecStructure == Init /\ [][NextStructure]_vars

\* C30: optimize_structure does not raise; for the empty list it returns a
\* structure without folders and the model is not called; for a non-empty
\* list, when the model call has failed at its third attempt, or the reply
\* does not decode, or decodes to something that is no dict with folders, it
\* returns one folder that holds the bookmarks given, in their order, and has
\* no subfolders.
C30_NeverRaises ==
  /\ structure_pc # "raised"
  /\ llm_calls <= stop_after_attempt
  /\ structure_pc = "returned" =>
       /\ structure_bookmarks = <<>> =>
            (structure_result = Structure(<<>>) /\ llm_calls = 0)
       /\ (/\ structure_bookmarks # <<>>
           /\ \/ llm_outcome = "failed"
              \/ /\ llm_outcome = "replied"
                 /\ \/ ~structure_response.decodable
                    \/ ~structure_response.isdict
                    \/ ~structure_response.has_folders) =>
            /\ Len(structure_result.folders) = 1
            /\ structure_result.folders[1].bookmarks = structure_bookmarks
            /\ structure_result.folders[1].subfolders = <<>>
       /\ llm_outcome = "failed" => llm_calls = stop_after_attempt

\* Two bookmarks were given, the model failed three times, and the fallback
\* with both bookmarks was returned.
C30_Witness ==
  /\ structure_pc = "returned"
  /\ Len(structure_bookmarks) = 2
  /\ llm_outcome = "failed"
  /\ llm_calls = 3
  /\ structure_result = fallback(structure_bookmarks)

====
